---- MODULE Spec2Model ----
(***************************************************************************)
(* uvtvirt.py: the uvt-kvm virtualization test.                            *)
(*                                                                         *)
(* A string is a sequence of tokens, each token a fixed, non-empty piece   *)
(* of text ("file", ":", "/", ".img", ...).  Concatenation of strings is   *)
(* concatenation of sequences.  The tokens are chosen so that the          *)
(* characters ':', '/', '?' and the text '.img' occur in a string only as  *)
(* whole tokens, hence searching for them is searching for a token.        *)
(***************************************************************************)
EXTENDS Integers, Sequences, FiniteSets, TLC

VARIABLES
    pc,         \* position of the single thread of control in test_uvtkvm
    args_image, \* the image value test_uvtkvm is given (environment or --image)
    image,      \* UVTKVMTest.image
    keyExists,  \* os.path.exists("$HOME/.ssh/id_rsa") when start() runs
    homeSet,    \* 'HOME' in os.environ
    log_level,  \* args.log_level given to logging.basicConfig
    calls,      \* the processes spawned so far, in order, with their exit codes
    log,        \* the records the logging module wrote during the latest step
    result,     \* the value start() returned
    verdict,    \* the PASS/FAIL lines printed on standard output
    exitcode,   \* the exit code of the process, once it has exited
    raised      \* the exception that ended the run, if one did

vars == <<pc, args_image, image, keyExists, homeSet, log_level, calls, log,
          result, verdict, exitcode, raised>>

----------------------------------------------------------------------------
(* Bounds *)

\* longest image value after its scheme prefix, in tokens
MaxPathLen == 2
\* largest exit code, and largest signal number, tried on run_command alone
MaxExitCode == 3
MaxSignal == 2

----------------------------------------------------------------------------
(* Strings *)

CharLen(tok) ==
    CASE tok = "file" -> 4
      [] tok = "FILE" -> 4
      [] tok = "http" -> 4
      [] tok = "https" -> 5
      [] tok = ".img" -> 4
      [] OTHER -> 1

\* str.find(tok): the character offset of the first occurrence, or -1
RECURSIVE FindFrom(_, _, _)
FindFrom(s, tok, off) ==
    IF s = <<>> THEN -1
    ELSE IF Head(s) = tok THEN off
    ELSE FindFrom(Tail(s), tok, off + CharLen(Head(s)))

Find(s, tok) == FindFrom(s, tok, 0)

\* the token index of the first occurrence of a token of toks, or 0
FirstIndex(s, toks) ==
    IF \E i \in DOMAIN s : s[i] \in toks
    THEN CHOOSE i \in DOMAIN s : s[i] \in toks /\ \A j \in 1..(i-1) : s[j] \notin toks
    ELSE 0

\* s[i:] with i a 1-based token index
From(s, i) == SubSeq(s, i, Len(s))

\* t occurs in s as a contiguous piece (t in s)
Contains(s, t) ==
    \E i \in 0..(Len(s) - Len(t)) : SubSeq(s, i + 1, i + Len(t)) = t

\* s.startswith(p)
StartsWith(s, p) == Len(s) >= Len(p) /\ SubSeq(s, 1, Len(p)) = p

\* str.lower() of one token
LowerTok(tok) == IF tok = "FILE" THEN "file" ELSE tok

Lower(s) == [i \in DOMAIN s |-> LowerTok(s[i])]

----------------------------------------------------------------------------
(* urllib.parse.urlparse, as far as get_image_or_source reads its result *)

\* tokens made only of characters of urllib's scheme_chars
SchemeToks == {"file", "FILE", "http", "https", "x", ".img"}
\* tokens whose first character is an ASCII letter
AlphaToks == {"file", "FILE", "http", "https", "x"}

\* the token index of the ':' ending a scheme, or 0 when the url has none
SchemeEnd(url) ==
    LET i == FirstIndex(url, {":"})
    IN IF /\ i > 1
          /\ url[1] \in AlphaToks
          /\ \A j \in 1..(i-1) : url[j] \in SchemeToks
       THEN i ELSE 0

urlparse_scheme(url) ==
    IF SchemeEnd(url) = 0 THEN <<>> ELSE Lower(SubSeq(url, 1, SchemeEnd(url) - 1))

\* what is left of the url after its scheme and its //netloc
AfterNetloc(url) ==
    LET rest == From(url, SchemeEnd(url) + 1)
    IN IF Len(rest) >= 2 /\ rest[1] = "/" /\ rest[2] = "/"
       THEN LET r2 == From(rest, 3)
                d  == FirstIndex(r2, {"/", "?"})
            IN IF d = 0 THEN <<>> ELSE From(r2, d)
       ELSE rest

urlparse_path(url) ==
    LET rest == AfterNetloc(url)
        q    == FirstIndex(rest, {"?"})
    IN IF q = 0 THEN rest ELSE SubSeq(rest, 1, q - 1)

----------------------------------------------------------------------------
(* The inputs of a run *)

\* scheme prefixes of the image values tried
Prefixes ==
    { <<>>, <<":">>, <<"file", ":">>, <<"file", ":", "/", "/">>,
      <<"file", ":", "/", "/", "/">>,
      <<"FILE", ":", "/", "/">>, <<"http", ":", "/", "/">>,
      <<"https", ":", "/", "/">>, <<"x", ":">> }

PathToks == {"/", "x", ".img", "?"}

Bodies == UNION { [1..n -> PathToks] : n \in 0..MaxPathLen }

\* the values of UVT_IMAGE_OR_SOURCE / --image; "" when neither is given
Images == { p \o b : p \in Prefixes, b \in Bodies }

\* the exit codes of the tools in a whole run: success or failure
ExitCodes == {0, 1}

\* Popen.returncode: an exit code, or -N for a child killed by signal N
ReturnCodes == (-MaxSignal)..MaxExitCode

\* what a tool may leave on its stdout or stderr: '' or some text
Outputs == { <<>>, <<"text">> }

LogLevels == {"DEBUG", "INFO"}

----------------------------------------------------------------------------
(* UVTKVMTest.__init__ *)

release == "focal"
arch == "amd64"
name == "tmpabcdefgh"

----------------------------------------------------------------------------
(* logging *)

LevelNo(level) ==
    CASE level = "DEBUG" -> 10
      [] level = "INFO" -> 20
      [] level = "ERROR" -> 40

Debug(text) == [level |-> "DEBUG", text |-> text]
Error(text) == [level |-> "ERROR", text |-> text]

\* the records of lines that pass the level set by logging.basicConfig
Emit(lines) ==
    SelectSeq(lines, LAMBDA l : LevelNo(l.level) >= LevelNo(log_level))

----------------------------------------------------------------------------
(* UVTKVMTest.run_command: what it returns and what it logs for a task     *)
(* that ended with return code rc, standard output out and standard error  *)
(* err.                                                                    *)

\* a variant that takes only a positive return code for a failure
run_command_positive(cmd, rc, out, err) ==
    IF rc > 0
    THEN [ret |-> FALSE,
          lines |-> << Error(<<"Command ">> \o cmd
                             \o <<" returnd a code of ", ToString(rc)>>),
                       Error(<<" STDOUT: ">> \o out),
                       Error(<<" STDERR: ">> \o err) >>]
    ELSE [ret |-> TRUE,
          lines |-> << Debug(<<"Command ">> \o cmd \o <<":">>),
                       Debug(<<" Command returned no output">>) >>]

run_command(cmd, rc, out, err) ==
    IF rc # 0
    THEN [ret |-> FALSE,
          lines |-> << Error(<<"Command ">> \o cmd
                             \o <<" returnd a code of ", ToString(rc)>>),
                       Error(<<" STDOUT: ">> \o out),
                       Error(<<" STDERR: ">> \o err) >>]
    ELSE [ret |-> TRUE,
          lines |-> << Debug(<<"Command ">> \o cmd \o <<":">>),
                       IF out # <<>> THEN Debug(<<" STDOUT: ">> \o out)
                       ELSE IF err # <<>> THEN Debug(<<" STDERR: ">> \o err)
                       ELSE Debug(<<" Command returned no output">>) >>]

----------------------------------------------------------------------------
(* The command lines *)

\* a variant that passes --source for every url that has a scheme
SyncCmdAnyScheme(img) ==
    LET cmd == <<"uvt-simplestreams-libvirt sync release=", release,
                 " arch=", arch>>
    IN IF urlparse_scheme(img) # <<>>
       THEN cmd \o <<" --source ">> \o img \o <<" ">>
       ELSE cmd

SyncCmd(img) ==
    LET cmd == <<"uvt-simplestreams-libvirt sync release=", release,
                 " arch=", arch>>
    IN IF urlparse_scheme(img) = <<"http">>
       THEN cmd \o <<" --source ">> \o img \o <<" ">>
       ELSE cmd

MkdirCmd == <<"mkdir -p ", "$HOME", "/.ssh">>

KeygenCmd == <<"ssh-keygen -f ", "$HOME", "/.ssh/id_rsa", " -t rsa -N ''">>

CreateCmd(img) ==
    LET cmd == <<"uvt-kvm create release=", release, " ", name>>
    IN IF Find(img, ".img") > 0
       THEN cmd \o <<" --backing-image-file ">> \o img \o <<" ">>
       ELSE cmd

WaitCmd == <<"uvt-kvm wait ", name>>

ListCmd == <<"uvt-kvm list">>

SshCmd == <<"uvt-kvm ssh ", name>>

SshRunCmd == <<"uvt-kvm ssh ", name, " \"lsb_release -a \"">>

DestroyCmd == <<"virsh destroy ", name>>

UndefineCmd == <<"virsh undefine ", name>>

PurgeCmd == <<"uvt-simplestreams-libvirt purge">>

----------------------------------------------------------------------------
(* RunCommand: one child process per call; the caller blocks until it exits *)

NoCode == <<>>

\* the processes that were spawned and have not exited yet
InFlight == { i \in DOMAIN calls : calls[i].returncode = NoCode }

\* Popen in RunCommand.run, reached from run_command at position stage.  It
\* either starts the process or raises (OSError: the tool is not there);
\* nothing on the way up to the interpreter catches that, so the run ends
\* with a traceback and exit code 1.  `before` are the records the caller
\* logs on its way to this call.
\* a variant that does not wait for the previous child
SpawnNoWait(stage, cmd, before) ==
    /\ pc = stage
    /\ log' = Emit(before)
    /\ calls' = Append(calls, [stage |-> stage, cmd |-> cmd,
                               returncode |-> NoCode])
    /\ UNCHANGED <<pc, exitcode, raised>>
    /\ UNCHANGED <<args_image, image, keyExists, homeSet, log_level, result, verdict>>

Spawn(stage, cmd, before) ==
    /\ pc = stage
    /\ InFlight = {}
    /\ log' = Emit(before)
    /\ \/ /\ calls' = Append(calls, [stage |-> stage, cmd |-> cmd,
                                     returncode |-> NoCode])
          /\ UNCHANGED <<pc, exitcode, raised>>
       \/ /\ pc' = "crashed"
          /\ exitcode' = <<1>>
          /\ raised' = <<"OSError">>
          /\ UNCHANGED calls
    /\ UNCHANGED <<args_image, image, keyExists, homeSet, log_level, result, verdict>>

\* proc.communicate() returns and run_command returns ret to its caller
Returns(stage, ret) ==
    /\ pc = stage
    /\ InFlight # {}
    /\ \E rc \in ExitCodes, out \in Outputs, err \in Outputs :
          LET r == run_command(calls[Len(calls)].cmd, rc, out, err)
          IN /\ r.ret = ret
             /\ calls' = [calls EXCEPT ![Len(calls)].returncode = <<rc>>]
             /\ log' = Emit(r.lines)
    /\ UNCHANGED <<args_image, image, keyExists, homeSet, log_level, verdict, exitcode, raised>>

\* a call whose outcome decides whether the caller goes on (to `next`) or
\* returns False (and test_uvtkvm continues at `onFalse`)
Checked(stage, cmd, before, next, onFalse) ==
    \/ Spawn(stage, cmd, before)
    \/ Returns(stage, TRUE) /\ pc' = next /\ UNCHANGED result
    \/ Returns(stage, FALSE) /\ pc' = onFalse /\ UNCHANGED result

----------------------------------------------------------------------------
(* test_uvtkvm *)

Init ==
    /\ pc = "check_uvtool"
    /\ args_image \in Images
    /\ image = args_image
    /\ keyExists \in BOOLEAN
    /\ homeSet \in BOOLEAN
    /\ log_level \in LogLevels
    /\ calls = <<>>
    /\ log = <<>>
    /\ result = <<>>
    /\ verdict = <<>>
    /\ exitcode = <<>>
    /\ raised = <<>>

\* check_package: cache[pkg_name] raises KeyError for a package apt does not
\* know, which ends the run; a failing commit is caught.  What it prints is
\* not kept.
CheckPackage ==
    /\ pc \in {"check_uvtool", "check_uvtool_libvirt"}
    /\ \E known \in BOOLEAN :
          IF known
          THEN /\ pc' = IF pc = "check_uvtool" THEN "check_uvtool_libvirt"
                        ELSE "get_image_or_source"
               /\ UNCHANGED <<exitcode, raised>>
          ELSE /\ pc' = "crashed"
               /\ exitcode' = <<1>>
               /\ raised' = <<"KeyError">>
    /\ log' = <<>>
    /\ UNCHANGED <<args_image, image, keyExists, homeSet, log_level, calls, result,
                   verdict>>

\* get_image_or_source up to its call of run_command
GetImageOrSource ==
    /\ pc = "get_image_or_source"
    /\ IF urlparse_scheme(image) = <<"file">>
       THEN /\ log' = Emit(<<Debug(<<"Cloud image exists locally at ">>
                                   \o urlparse_path(image))>>)
            /\ image' = urlparse_path(image)
            /\ pc' = "start"
       ELSE /\ log' = <<>>
            /\ pc' = "sync"
            /\ UNCHANGED image
    /\ UNCHANGED <<args_image, keyExists, homeSet, log_level, calls, result, verdict,
                   exitcode, raised>>

\* a variant in which a failed sync ends the test
SyncGates ==
    Checked("sync", SyncCmd(image),
            << Debug(<<"uvt-simplestreams-libvirt sync">>) >>,
            "start", "report")

\* the sync command; test_uvtkvm drops what get_image_or_source returns
Sync ==
    Checked("sync", SyncCmd(image),
            IF urlparse_scheme(image) = <<"http">>
            THEN << Debug(<<"Using --source option for uvt-simpletreams">>),
                    Debug(<<"uvt-simplestreams-libvirt sync">>) >>
            ELSE << Debug(<<"uvt-simplestreams-libvirt sync">>) >>,
            "start", "start")

\* start() up to its first call of run_command
Start ==
    /\ pc = "start"
    /\ IF ~homeSet
       THEN pc' = "crashed" /\ exitcode' = <<1>> /\ raised' = <<"KeyError">>
       ELSE /\ pc' = IF keyExists THEN "create" ELSE "mkdir"
            /\ UNCHANGED <<exitcode, raised>>
    /\ log' = <<>>
    /\ UNCHANGED <<args_image, image, keyExists, homeSet, log_level, calls, result,
                   verdict>>

\* start() returns False to test_uvtkvm, which goes on to cleanup()
StartFailed == "start_false"
\* start() returns True
StartPassed == "start_true"

\* a variant that cleans up only after a successful start()
StartReturnsCleanupOnSuccess ==
    /\ pc \in {StartFailed, StartPassed}
    /\ result' = <<pc = StartPassed>>
    /\ pc' = IF pc = StartPassed THEN "destroy" ELSE "report"
    /\ log' = <<>>
    /\ UNCHANGED <<args_image, image, keyExists, homeSet, log_level, calls, verdict,
                   exitcode, raised>>

StartReturns ==
    /\ pc \in {StartFailed, StartPassed}
    /\ result' = <<pc = StartPassed>>
    /\ pc' = "destroy"
    /\ log' = <<>>
    /\ UNCHANGED <<args_image, image, keyExists, homeSet, log_level, calls, verdict,
                   exitcode, raised>>

Mkdir == Checked("mkdir", MkdirCmd, <<>>, "keygen", "keygen")

Keygen == Checked("keygen", KeygenCmd, <<>>, "create", StartFailed)

\* a variant that goes on to wait for the VM after a failed creation
CreateContinues ==
    Checked("create", CreateCmd(image), <<Debug(<<"Creating VM">>)>>,
            "wait", "wait")

Create ==
    Checked("create", CreateCmd(image), <<Debug(<<"Creating VM">>)>>,
            "wait", StartFailed)

Wait ==
    Checked("wait", WaitCmd, <<Debug(<<"Wait for VM to complete creation">>)>>,
            "list", StartFailed)

\* a variant that only observes the list command
ListUnchecked ==
    Checked("list", ListCmd, <<Debug(<<"List newly created vm">>)>>,
            "ssh", "ssh")

List ==
    Checked("list", ListCmd, <<Debug(<<"List newly created vm">>)>>,
            "ssh", StartFailed)

Ssh ==
    Checked("ssh", SshCmd, <<Debug(<<"Verify VM was created with ssh">>)>>,
            "ssh_run", StartFailed)

SshRun ==
    Checked("ssh_run", SshRunCmd,
            <<Debug(<<"Verify VM was created with ssh and run a command">>)>>,
            StartPassed, StartFailed)

\* cleanup(); test_uvtkvm drops what it returns
Destroy ==
    Checked("destroy", DestroyCmd, <<Debug(<<"Destroy VM">>)>>,
            "undefine", "report")

Undefine ==
    Checked("undefine", UndefineCmd, <<Debug(<<"Undefine VM">>)>>,
            "purge", "report")

Purge == Checked("purge", PurgeCmd, <<>>, "report", "report")

\* the final message and sys.exit
Report ==
    /\ pc = "report"
    /\ IF result = <<TRUE>>
       THEN /\ verdict' = Append(verdict, "PASS")
            /\ exitcode' = <<0>>
       ELSE /\ verdict' = Append(verdict, "FAIL")
            /\ exitcode' = <<1>>
    /\ pc' = "exited"
    /\ log' = <<>>
    /\ UNCHANGED <<args_image, image, keyExists, homeSet, log_level, calls, result,
                   raised>>

Next ==
    \/ CheckPackage
    \/ GetImageOrSource
    \/ Sync
    \/ Start
    \/ Mkdir
    \/ Keygen
    \/ Create
    \/ Wait
    \/ List
    \/ Ssh
    \/ SshRun
    \/ StartReturns
    \/ Destroy
    \/ Undefine
    \/ Purge
    \/ Report

Spec == Init /\ [][Next]_vars

----------------------------------------------------------------------------
(* run_command on its own: any command line of the program, any return     *)
(* code, any output.                                                       *)

Commands(img) ==
    { SyncCmd(img), MkdirCmd, KeygenCmd, CreateCmd(img), WaitCmd, ListCmd,
      SshCmd, SshRunCmd, DestroyCmd, UndefineCmd, PurgeCmd }

InitRun ==
    /\ pc = "run_command"
    /\ args_image \in Images
    /\ image = args_image
    /\ keyExists = TRUE
    /\ homeSet = TRUE
    /\ log_level \in LogLevels
    /\ calls = <<>>
    /\ log = <<>>
    /\ result = <<>>
    /\ verdict = <<>>
    /\ exitcode = <<>>
    /\ raised = <<>>

RunCommandCall ==
    /\ pc = "run_command"
    /\ InFlight = {}
    /\ \E cmd \in Commands(image) :
          calls' = Append(calls, [stage |-> "run_command", cmd |-> cmd,
                                  returncode |-> NoCode])
    /\ UNCHANGED <<pc, args_image, image, keyExists, homeSet, log_level, log,
                   result, verdict, exitcode, raised>>

RunCommandReturn ==
    /\ pc = "run_command"
    /\ InFlight # {}
    /\ \E rc \in ReturnCodes, out \in Outputs, err \in Outputs :
          LET r == run_command(calls[Len(calls)].cmd, rc, out, err)
          IN /\ result' = <<r.ret>>
             /\ calls' = [calls EXCEPT ![Len(calls)].returncode = <<rc>>]
             /\ log' = Emit(r.lines)
    /\ pc' = "returned"
    /\ UNCHANGED <<args_image, image, keyExists, homeSet, log_level, verdict,
                   exitcode, raised>>

NextRun == RunCommandCall \/ RunCommandReturn

SpecRun == InitRun /\ [][NextRun]_vars

----------------------------------------------------------------------------
(* What the properties below read off a state *)

\* the calls made at a position of the program
CallsAt(stage) == { i \in DOMAIN calls : calls[i].stage = stage }

Invoked(stage) == CallsAt(stage) # {}

ExitedZero(stage) == \E i \in CallsAt(stage) : calls[i].returncode = <<0>>

ExitedNonzero(stage) ==
    \E i \in CallsAt(stage) : calls[i].returncode \notin {NoCode, <<0>>}

ErrorLogged(cmd) ==
    \E i \in DOMAIN log : log[i].level = "ERROR" /\ Contains(log[i].text, cmd)

NoErrorLogged == \A i \in DOMAIN log : log[i].level # "ERROR"

\* the run got as far as its final message
Reported == pc \in {"report", "exited"}

----------------------------------------------------------------------------
(* C1: run_command returns True exactly when the return code is 0; when it *)
(* returns False an error-level record containing the command text has     *)
(* been written, and when it returns True no error-level record has.       *)
C1_RunCommandContract ==
    pc = "returned" =>
        LET c == calls[Len(calls)]
        IN /\ result = <<c.returncode = <<0>>>>
           /\ result = <<FALSE>> => ErrorLogged(c.cmd)
           /\ result = <<TRUE>> => NoErrorLogged

\* a child killed by a signal, with default logging: False and logged
C1_Witness ==
    /\ pc = "returned"
    /\ calls[Len(calls)].returncode = <<-1>>
    /\ calls[Len(calls)].cmd = SshRunCmd
    /\ log_level = "INFO"
    /\ result = <<FALSE>>
    /\ Len(log) = 3

----------------------------------------------------------------------------
----------------------------------------------------------------------------
(* C3: virsh destroy has been invoked before the final message and the     *)
(* exit, whatever the exit codes of the commands before it were.           *)
C3_CleanupBeforeVerdict ==
    (Reported \/ verdict # <<>>) =>
        \E i \in CallsAt("destroy") :
            /\ calls[i].cmd = <<"virsh destroy ", name>>
            /\ verdict # <<>> => calls[i].returncode # NoCode

\* the final message of a run whose sync and key generation failed
C3_WitnessKeygen ==
    /\ pc = "exited"
    /\ ExitedNonzero("sync")
    /\ ExitedNonzero("keygen")
    /\ ~Invoked("create")
    /\ Invoked("destroy")

\* the final message of a run whose VM creation failed
C3_Witness ==
    /\ pc = "exited"
    /\ ExitedNonzero("create")
    /\ Invoked("destroy")

----------------------------------------------------------------------------
(* C4: once the image is resolved, a 'file' url has become its path and no *)
(* sync was invoked; any other value is unchanged and the sync tool was    *)
(* invoked exactly once, with the release and the architecture, and with   *)
(* --source <the value> exactly when the scheme is 'http'.                 *)
Resolved ==
    pc \notin {"check_uvtool", "check_uvtool_libvirt", "get_image_or_source",
               "sync", "crashed"}

C4_ImageResolution ==
    Resolved =>
        LET base == <<"uvt-simplestreams-libvirt sync release=", release,
                      " arch=", arch>>
            source == <<" --source ">> \o args_image \o <<" ">>
        IN /\ IF urlparse_scheme(args_image) = <<"file">>
              THEN /\ image = urlparse_path(args_image)
                   /\ ~Invoked("sync")
              ELSE /\ image = args_image
                   /\ Cardinality(CallsAt("sync")) = 1
                   /\ \A i \in CallsAt("sync") :
                         calls[i].cmd =
                            IF urlparse_scheme(args_image) = <<"http">>
                            THEN base \o source ELSE base
           /\ args_image = <<"file", ":", "/", "/", "/", "x", ".img">>
                 => image = <<"/", "x", ".img">>
           /\ args_image = <<"file", ":", "/", "/", "x", "/", ".img">>
                 => image = <<"/", ".img">>
           /\ args_image = <<"file", ":", "x", "?", ".img">> => image = <<"x">>
           /\ StartsWith(args_image, <<"FILE", ":", "/", "/">>)
                 => ~Invoked("sync")
           /\ StartsWith(args_image, <<"https", ":", "/", "/">>)
                 => \A i \in CallsAt("sync") : calls[i].cmd = base
           /\ StartsWith(args_image, <<"http", ":", "/", "/">>)
                 => \A i \in CallsAt("sync") : calls[i].cmd = base \o source

\* a file url resolved to its path
C4_Witness ==
    /\ pc = "exited"
    /\ args_image = <<"file", ":", "/", "/", "/", "x", ".img">>
    /\ image = <<"/", "x", ".img">>
    /\ ~Invoked("sync")

\* an http url handed to the sync tool
C4_WitnessHttp ==
    /\ pc = "exited"
    /\ args_image = <<"http", ":", "/", "/", "x", "/">>
    /\ Invoked("sync")

----------------------------------------------------------------------------
(* C5: the create command carries --backing-image-file <image> whenever    *)
(* the resolved image contains '.img' at any position, and does not carry  *)
(* it otherwise.                                                           *)
C5_BackingImageArgument ==
    \A i \in CallsAt("create") :
        LET base == <<"uvt-kvm create release=", release, " ", name>>
        IN calls[i].cmd =
              IF Contains(image, <<".img">>)
              THEN base \o <<" --backing-image-file ">> \o image \o <<" ">>
              ELSE base

----------------------------------------------------------------------------
(* C6: a run that completes prints exactly one final message and exits     *)
(* with 0 or 1: PASS and 0 exactly when ssh-keygen (if the key had to be   *)
(* generated), create, wait, list and both ssh commands exited zero, FAIL  *)
(* and 1 otherwise, whatever sync and the cleanup commands returned.       *)
AllChecksZero ==
    /\ keyExists \/ ExitedZero("keygen")
    /\ ExitedZero("create")
    /\ ExitedZero("wait")
    /\ ExitedZero("list")
    /\ ExitedZero("ssh")
    /\ ExitedZero("ssh_run")

C6_VerdictAndExitCode ==
    pc = "exited" =>
        /\ Len(verdict) = 1
        /\ IF AllChecksZero
           THEN verdict = <<"PASS">> /\ exitcode = <<0>>
           ELSE verdict = <<"FAIL">> /\ exitcode = <<1>>

\* PASS although sync, mkdir and destroy failed
C6_Witness ==
    /\ pc = "exited"
    /\ verdict = <<"PASS">>
    /\ ExitedNonzero("sync")
    /\ ExitedNonzero("mkdir")
    /\ ExitedNonzero("destroy")

\* FAIL although sync and the whole cleanup succeeded
C6_WitnessFail ==
    /\ pc = "exited"
    /\ verdict = <<"FAIL">>
    /\ ExitedZero("sync")
    /\ ExitedNonzero("list")
    /\ ExitedZero("purge")

----------------------------------------------------------------------------
(* C7: the commands of the stages sync, create, wait, list, ssh, ssh with  *)
(* a remote command, destroy, undefine, purge are invoked in that order,   *)
(* each at most once, and at most one process is in flight at any time.    *)
StageRank(stage) ==
    CASE stage = "sync" -> 1
      [] stage = "create" -> 2
      [] stage = "wait" -> 3
      [] stage = "list" -> 4
      [] stage = "ssh" -> 5
      [] stage = "ssh_run" -> 6
      [] stage = "destroy" -> 7
      [] stage = "undefine" -> 8
      [] stage = "purge" -> 9
      [] OTHER -> 0

C7_StageOrder ==
    /\ \A i, j \in DOMAIN calls :
          (i < j /\ StageRank(calls[i].stage) > 0 /\ StageRank(calls[j].stage) > 0)
              => StageRank(calls[i].stage) < StageRank(calls[j].stage)
    /\ Cardinality(InFlight) <= 1

\* all eleven commands of a run, the last still in flight
C7_Witness ==
    /\ Len(calls) = 11
    /\ pc = "purge"
    /\ InFlight = {11}

----------------------------------------------------------------------------
(* C8: a command that cannot be spawned is caught in run_command, logged   *)
(* and turned into False, so no exception of Popen ends the run: the run   *)
(* goes on to cleanup and ends with a PASS/FAIL message.                   *)
C8_SpawnFailureIsCaught ==
    raised = <<"OSError">> =>
        /\ pc # "crashed"
        /\ exitcode # <<>> => (Len(verdict) = 1 /\ Invoked("destroy"))

----------------------------------------------------------------------------
(* C9: whenever cleanup has run, destroy, undefine and purge have all been *)
(* invoked, in that order, whatever the earlier ones returned.             *)
C9_CleanupRunsAllSteps ==
    Reported =>
        \E i, j, k \in DOMAIN calls :
            /\ i < j /\ j < k
            /\ calls[i].cmd = DestroyCmd
            /\ calls[j].cmd = UndefineCmd
            /\ calls[k].cmd = PurgeCmd

----------------------------------------------------------------------------
(* C10: a failed sync only logs: the run goes on to start(), and uvt-kvm   *)
(* create is invoked (after ssh-keygen succeeded, when a key was needed)   *)
(* with the release and the VM name it would have had after a good sync.   *)
C10_SyncGatesNothing ==
    ExitedNonzero("sync") =>
        /\ pc = "start" => ErrorLogged(SyncCmd(image))
        /\ calls[Len(calls)].stage = "sync"
              => pc \in {"start", "mkdir", "create", "crashed"}
        /\ (Reported /\ (keyExists \/ ExitedZero("keygen"))) => Invoked("create")
        /\ \A i \in CallsAt("create") :
              StartsWith(calls[i].cmd,
                         <<"uvt-kvm create release=", release, " ", name>>)

\* sync failed, the key was generated, create was invoked
C10_Witness ==
    /\ ExitedNonzero("sync")
    /\ ExitedZero("keygen")
    /\ Invoked("create")
    /\ pc = "exited"

====
